---- MODULE Spec2Model ----
(***************************************************************************)
(* Model of the JSX query layer of biome_js_syntax (jsx_ext.rs): attribute *)
(* lookup, spread-override detection, element classification and the       *)
(* accessibility predicate over an immutable syntax tree.                  *)
(*                                                                         *)
(* Text is a sequence of pieces (a piece is a word, a quote or a blank),   *)
(* so that trimming trivia and removing quotes are real conversions.       *)
(* Option<T> and SyntaxResult<T> are sequences: <<>> is None / Err and     *)
(* <<v>> is Some(v) / Ok(v). A JsxAttribute handle is the position of the  *)
(* attribute in its list: rowan compares nodes by their place in the tree. *)
(***************************************************************************)
EXTENDS Naturals, Sequences, FiniteSets, TLC

VARIABLES child, pc, op, args, result

\* The rule engine: the nodes of the tree the driver walks, and for every
\* node what the driver has done with the rule so far.
VARIABLES tree, visited, phase, signals, diagnostics, run_calls, diagnostic_calls

query_vars == <<child, pc, op, args, result>>

rule_vars ==
    <<tree, visited, phase, signals, diagnostics, run_calls, diagnostic_calls>>

vars == <<query_vars, rule_vars>>

\* ------------------------------------------------------------------ bounds

MaxAttrs == 3

MaxChildren == 2

\* Nodes of the tree the rule is run over.
MaxNodes == 3

MAX_NAMES == 16

\* ------------------------------------------------------------ Option/Result

None == <<>>

Some(v) == <<v>>

is_some(o) == o /= <<>>

is_none(o) == o = <<>>

unwrap(o) == o[1]

SeqsUpTo(S, n) == UNION {[1..k -> S] : k \in 0..n}

\* -------------------------------------------------------------- text, tokens

WS == " "

QUOTE == "\""

\* A token: its whole text, trivia included, and the lengths of the trivia.
Token(leading, body, trailing) ==
    [text |-> leading \o body \o trailing,
     leading |-> Len(leading), trailing |-> Len(trailing)]

\* SyntaxToken::text_trimmed: the text without leading and trailing trivia.
text_trimmed(token) ==
    SubSeq(token.text, token.leading + 1, Len(token.text) - token.trailing)

RECURSIVE trim_start(_)
trim_start(s) ==
    IF s /= <<>> /\ Head(s) = WS THEN trim_start(Tail(s)) ELSE s

RECURSIVE trim_end(_)
trim_end(s) ==
    IF s /= <<>> /\ s[Len(s)] = WS THEN trim_end(SubSeq(s, 1, Len(s) - 1)) ELSE s

\* str::trim
trim(s) == trim_end(trim_start(s))

\* crate::inner_string_text: the trimmed text of a string literal token
\* without its two delimiters.
inner_string_text(token) ==
    LET text == text_trimmed(token)
    IN  SubSeq(text, 2, Len(text) - 1)

\* JsxString::inner_string_text
JsxString_inner_string_text(string) ==
    IF is_some(string.value_token)
    THEN Some(inner_string_text(unwrap(string.value_token)))
    ELSE None

\* ------------------------------------------------------------- static values

\* AnyJsExpression::as_static_value: a constant only for literal forms.
AnyJsExpression_as_static_value(expression) ==
    CASE expression.kind = "JsStringLiteralExpression" ->
            Some([kind |-> "String", token |-> expression.token])
      [] expression.kind = "JsBooleanLiteralExpression" ->
            Some([kind |-> "Boolean", token |-> expression.token])
      [] expression.kind = "JsNullLiteralExpression" ->
            Some([kind |-> "Null", token |-> expression.token])
      [] expression.kind = "JsIdentifierExpression"
           /\ text_trimmed(expression.token) = <<"undefined">> ->
            Some([kind |-> "Undefined", token |-> expression.token])
      [] OTHER -> None

\* StaticValue::text
StaticValue_text(value) ==
    IF value.kind = "String"
    THEN inner_string_text(value.token)
    ELSE text_trimmed(value.token)

\* StaticValue::is_falsy
is_falsy(value) ==
    CASE value.kind = "Boolean" -> text_trimmed(value.token) = <<"false">>
      [] value.kind = "String" -> StaticValue_text(value) = <<>>
      [] value.kind = "Null" -> TRUE
      [] value.kind = "Undefined" -> TRUE

\* AnyJsxAttributeValue::as_static_value
AnyJsxAttributeValue_as_static_value(value) ==
    CASE value.kind = "AnyJsxTag" -> None
      [] value.kind = "JsxExpressionAttributeValue" ->
            IF is_some(value.expression)
            THEN AnyJsExpression_as_static_value(unwrap(value.expression))
            ELSE None
      [] value.kind = "JsxString" ->
            IF is_some(value.value_token)
            THEN Some([kind |-> "String", token |-> unwrap(value.value_token)])
            ELSE None

\* JsxAttribute::as_static_value
JsxAttribute_as_static_value(attribute) ==
    IF is_none(attribute.initializer) THEN None
    ELSE IF is_none(unwrap(attribute.initializer).value) THEN None
    ELSE AnyJsxAttributeValue_as_static_value(unwrap(unwrap(attribute.initializer).value))

\* --------------------------------------------------------- JsxAttributeList

\* The closure of find_by_name's find_map: the entry casts to JsxAttribute,
\* its name casts to JsxName, and the trimmed name token is the name asked.
find_by_name_matches(attribute, name_to_lookup) ==
    /\ attribute.kind = "JsxAttribute"
    /\ is_some(attribute.name)
    /\ unwrap(attribute.name).kind = "JsxName"
    /\ is_some(unwrap(attribute.name).value_token)
    /\ text_trimmed(unwrap(unwrap(attribute.name).value_token)) = name_to_lookup

RECURSIVE find_map(_, _, _)
find_map(list, name_to_lookup, i) ==
    IF i > Len(list) THEN None
    ELSE IF find_by_name_matches(list[i], name_to_lookup) THEN Some(i)
    ELSE find_map(list, name_to_lookup, i + 1)

\* Mutant: the last matching attribute instead of the first.
RECURSIVE find_map_last(_, _, _)
find_map_last(list, name_to_lookup, i) ==
    IF i < 1 THEN None
    ELSE IF find_by_name_matches(list[i], name_to_lookup) THEN Some(i)
    ELSE find_map_last(list, name_to_lookup, i - 1)

find_by_name_last(list, name_to_lookup) ==
    find_map_last(list, name_to_lookup, Len(list))

\* JsxAttributeList::find_by_name
find_by_name(list, name_to_lookup) ==
    find_map(list, name_to_lookup, 1)

\* The name find_by_names compares: the trimmed token of a JsxName name.
jsx_name_text(att) ==
    IF /\ att.kind = "JsxAttribute"
       /\ is_some(att.name)
       /\ unwrap(att.name).kind = "JsxName"
       /\ is_some(unwrap(att.name).value_token)
    THEN Some(text_trimmed(unwrap(unwrap(att.name).value_token)))
    ELSE None

\* The inner loop `for i in 0..N`: the first slot that is still empty and
\* asks for this name (0: no such slot).
first_slot(results, names_to_lookup, name) ==
    LET slots == {i \in 1..Len(names_to_lookup) :
                     is_none(results[i]) /\ names_to_lookup[i] = name}
    IN  IF slots = {} THEN 0
        ELSE CHOOSE i \in slots : \A j \in slots : i <= j

\* Mutant: leaves the scan at the first match, whatever is still missing.
RECURSIVE find_by_names_scan_stop_early(_, _, _, _, _)
find_by_names_scan_stop_early(list, names_to_lookup, results, missing, i) ==
    IF i > Len(list) THEN [results |-> results, examined |-> Len(list)]
    ELSE LET name == jsx_name_text(list[i])
             slot == IF is_some(name)
                     THEN first_slot(results, names_to_lookup, unwrap(name))
                     ELSE 0
         IN  IF slot = 0
             THEN find_by_names_scan_stop_early(list, names_to_lookup, results, missing, i + 1)
             ELSE [results |-> [results EXCEPT ![slot] = Some(i)], examined |-> i]

\* The loop 'attributes of find_by_names, from attribute i on: the results
\* and the number of attributes examined.
RECURSIVE find_by_names_scan(_, _, _, _, _)
find_by_names_scan(list, names_to_lookup, results, missing, i) ==
    IF i > Len(list) THEN [results |-> results, examined |-> Len(list)]
    ELSE LET name == jsx_name_text(list[i])
             slot == IF is_some(name)
                     THEN first_slot(results, names_to_lookup, unwrap(name))
                     ELSE 0
         IN  IF slot = 0
             THEN find_by_names_scan(list, names_to_lookup, results, missing, i + 1)
             ELSE IF missing = 1
             THEN [results |-> [results EXCEPT ![slot] = Some(i)], examined |-> i]
             ELSE find_by_names_scan(list, names_to_lookup,
                                     [results EXCEPT ![slot] = Some(i)],
                                     missing - 1, i + 1)

\* The two debug_assert! of find_by_names: no duplicates, at most 16 names.
names_contract(names_to_lookup) ==
    /\ Cardinality({names_to_lookup[i] : i \in 1..Len(names_to_lookup)})
         = Len(names_to_lookup)
    /\ Len(names_to_lookup) <= MAX_NAMES

Panic == [outcome |-> "panic", results |-> <<>>, examined |-> 0]

\* Mutant: the assertions are checked in no build.
find_by_names_unchecked(list, names_to_lookup, debug_assertions) ==
    LET scan == find_by_names_scan(list, names_to_lookup,
                    [i \in 1..Len(names_to_lookup) |-> None],
                    Len(names_to_lookup), 1)
    IN  [outcome |-> "returned", results |-> scan.results,
         examined |-> scan.examined]

\* JsxAttributeList::find_by_names, in a build with or without
\* debug_assertions: debug_assert! is compiled out of a release build.
find_by_names(list, names_to_lookup, debug_assertions) ==
    IF debug_assertions /\ ~names_contract(names_to_lookup) THEN Panic
    ELSE LET scan == find_by_names_scan(list, names_to_lookup,
                         [i \in 1..Len(names_to_lookup) |-> None],
                         Len(names_to_lookup), 1)
         IN  [outcome |-> "returned", results |-> scan.results,
              examined |-> scan.examined]

RECURSIVE has_trailing_spread_prop_loop(_, _, _, _)
has_trailing_spread_prop_loop(list, current_attribute, i, current_attribute_found) ==
    IF i > Len(list) THEN FALSE
    ELSE IF list[i].kind = "JsxAttribute" /\ i = current_attribute
    THEN has_trailing_spread_prop_loop(list, current_attribute, i + 1, TRUE)
    ELSE IF current_attribute_found /\ list[i].kind = "JsxSpreadAttribute"
    THEN TRUE
    ELSE has_trailing_spread_prop_loop(list, current_attribute, i + 1,
                                       current_attribute_found)

\* Mutant: a spread anywhere in the list counts (has_spread_prop).
has_any_spread_prop(list, current_attribute) ==
    \E i \in 1..Len(list) : list[i].kind = "JsxSpreadAttribute"

\* JsxAttributeList::has_trailing_spread_prop
has_trailing_spread_prop(list, current_attribute) ==
    has_trailing_spread_prop_loop(list, current_attribute, 1, FALSE)

\* ------------------------------------------------------------- AnyJsxElement

\* Mutant: an element without a name counts as a component.
is_custom_component_default_true(element) ==
    IF is_some(element.name) THEN unwrap(element.name).kind /= "JsxName" ELSE TRUE

\* AnyJsxElement::is_custom_component
is_custom_component(element) ==
    IF is_some(element.name) THEN unwrap(element.name).kind /= "JsxName" ELSE FALSE

\* AnyJsxElement::is_element
is_element(element) ==
    IF is_some(element.name) THEN unwrap(element.name).kind = "JsxName" ELSE FALSE

\* AnyJsxElement::has_spread_prop
has_spread_prop(element) ==
    \E i \in 1..Len(element.attributes) :
        element.attributes[i].kind = "JsxSpreadAttribute"

\* AnyJsxElement::find_attribute_by_name
find_attribute_by_name(element, name_to_lookup) ==
    find_by_name(element.attributes, name_to_lookup)

\* Mutant: the text of the token as written, delimiters included.
get_attribute_text_with_quotes(element, name_to_lookup) ==
    LET found == find_attribute_by_name(element, name_to_lookup)
    IN  IF is_none(found) THEN None
        ELSE LET attr == element.attributes[unwrap(found)]
             IN  IF is_none(attr.initializer) THEN None
                 ELSE IF is_none(unwrap(attr.initializer).value) THEN None
                 ELSE LET initializer == unwrap(unwrap(attr.initializer).value)
                      IN  IF initializer.kind /= "JsxString" THEN None
                          ELSE IF is_none(initializer.value_token) THEN None
                          ELSE Some(text_trimmed(unwrap(initializer.value_token)))

\* AnyJsxElement::get_attribute_inner_string_text
get_attribute_inner_string_text(element, name_to_lookup) ==
    LET found == find_attribute_by_name(element, name_to_lookup)
    IN  IF is_none(found) THEN None
        ELSE LET attr == element.attributes[unwrap(found)]
             IN  IF is_none(attr.initializer) THEN None
                 ELSE IF is_none(unwrap(attr.initializer).value) THEN None
                 ELSE LET initializer == unwrap(unwrap(attr.initializer).value)
                      IN  IF initializer.kind /= "JsxString" THEN None
                          ELSE JsxString_inner_string_text(initializer)

\* The closure of has_truthy_attribute's inner map_or.
static_value_allows_truthy(value) ==
    ~(is_falsy(value) \/ StaticValue_text(value) = <<"false">>)

\* Mutant: a later spread attribute is not looked for.
has_truthy_attribute_ignoring_spread(element, name_to_lookup) ==
    LET found == find_attribute_by_name(element, name_to_lookup)
    IN  IF is_none(found) THEN FALSE
        ELSE LET value == JsxAttribute_as_static_value(element.attributes[unwrap(found)])
             IN  IF is_none(value) THEN TRUE
                 ELSE static_value_allows_truthy(unwrap(value))

\* AnyJsxElement::has_truthy_attribute
has_truthy_attribute(element, name_to_lookup) ==
    LET found == find_attribute_by_name(element, name_to_lookup)
    IN  IF is_none(found) THEN FALSE
        ELSE LET value == JsxAttribute_as_static_value(element.attributes[unwrap(found)])
             IN  /\ IF is_none(value) THEN TRUE
                    ELSE static_value_allows_truthy(unwrap(value))
                 /\ ~has_trailing_spread_prop(element.attributes, unwrap(found))

\* --------------------------------------------------------------- AnyJsxChild

ARIA_HIDDEN == <<"aria-hidden">>

RECURSIVE is_accessible_node(_)

\* Mutant: a text without its value token counts as inaccessible.
JsxText_arm_missing_is_false(text) ==
    IF is_none(text.value_token) THEN Some(FALSE)
    ELSE Some(trim(text_trimmed(unwrap(text.value_token))) /= <<>>)

\* The arm AnyJsxChild::JsxText.
JsxText_arm(text) ==
    IF is_none(text.value_token) THEN None
    ELSE Some(trim(text_trimmed(unwrap(text.value_token))) /= <<>>)

\* Mutant: an expression that is not static counts as inaccessible.
JsxExpressionChild_arm_default_false(expression) ==
    IF is_none(expression.expression) THEN None
    ELSE LET value == AnyJsExpression_as_static_value(unwrap(expression.expression))
         IN  Some(IF is_none(value) THEN FALSE ELSE ~is_falsy(unwrap(value)))

\* The arm AnyJsxChild::JsxExpressionChild.
JsxExpressionChild_arm(expression) ==
    IF is_none(expression.expression) THEN None
    ELSE LET value == AnyJsExpression_as_static_value(unwrap(expression.expression))
         IN  Some(IF is_none(value) THEN TRUE ELSE ~is_falsy(unwrap(value)))

\* Mutant: a component is looked at like a native element.
JsxElement_arm_no_component(element) ==
    IF is_none(element.opening_element) THEN None
    ELSE Some(~has_truthy_attribute(unwrap(element.opening_element), ARIA_HIDDEN))

\* The arm AnyJsxChild::JsxElement.
JsxElement_arm(element) ==
    IF is_none(element.opening_element) THEN None
    ELSE LET jsx_element == unwrap(element.opening_element)
         IN  Some(\/ is_custom_component(jsx_element)
                  \/ ~has_truthy_attribute(jsx_element, ARIA_HIDDEN))

\* The arm AnyJsxChild::JsxSelfClosingElement.
JsxSelfClosingElement_arm(element) ==
    Some(\/ is_custom_component(element)
         \/ ~has_truthy_attribute(element, ARIA_HIDDEN))

\* child.is_accessible_node().unwrap_or(true)
unwrap_or_true(o) == IF is_some(o) THEN unwrap(o) ELSE TRUE

\* Mutant: every child has to be accessible.
JsxFragment_arm_all(fragment) ==
    Some(\A i \in 1..Len(fragment.children) :
            unwrap_or_true(is_accessible_node(fragment.children[i])))

\* The arm AnyJsxChild::JsxFragment.
JsxFragment_arm(fragment) ==
    Some(\E i \in 1..Len(fragment.children) :
            unwrap_or_true(is_accessible_node(fragment.children[i])))

\* AnyJsxChild::is_accessible_node
is_accessible_node(self) ==
    CASE self.kind = "JsxText" -> JsxText_arm(self)
      [] self.kind = "JsxExpressionChild" -> JsxExpressionChild_arm(self)
      [] self.kind = "JsxElement" -> JsxElement_arm(self)
      [] self.kind = "JsxSelfClosingElement" -> JsxSelfClosingElement_arm(self)
      [] self.kind = "JsxFragment" -> JsxFragment_arm(self)
      [] OTHER -> Some(TRUE)

\* self.parent::<JsxElement>(): the JsxElement above an opening element,
\* none when the node above it is not a JsxElement.
parent_JsxElement(root) ==
    IF root.kind = "JsxElement" THEN Some(root) ELSE None

\* Mutant: a child whose answer is none counts as inaccessible.
has_accessible_child_unwrap_or_false(parent) ==
    IF is_none(parent) THEN FALSE
    ELSE \E i \in 1..Len(unwrap(parent).children) :
            is_accessible_node(unwrap(parent).children[i]) = Some(TRUE)

\* JsxOpeningElement::has_accessible_child, given self.parent::<JsxElement>()
has_accessible_child(parent) ==
    IF is_none(parent) THEN FALSE
    ELSE \E i \in 1..Len(unwrap(parent).children) :
            unwrap_or_true(is_accessible_node(unwrap(parent).children[i]))

\* ------------------------------------------------------- the trees analysed

\* A name token as it stands in a tag: a blank of trivia before the word.
NameToken(word) == Token(<<WS>>, <<word>>, <<>>)

WordToken(word) == Token(<<>>, <<word>>, <<>>)

\* A string literal token: the body between its two delimiters.
StringToken(body) == Token(<<>>, <<QUOTE>> \o body \o <<QUOTE>>, <<WS>>)

ROLE == <<"role">>

XML_ARIA_HIDDEN == <<"xml", ":", "aria-hidden">>

\* The names asked for: two plain names and a namespaced one.
LookupNames == {ARIA_HIDDEN, ROLE, XML_ARIA_HIDDEN}

PlainLookupNames == {ARIA_HIDDEN, ROLE}

\* AnyJsExpression: literals, `undefined`, and two forms that are not static.
Expressions ==
    {[kind |-> "JsBooleanLiteralExpression", token |-> WordToken("false")],
     [kind |-> "JsBooleanLiteralExpression", token |-> WordToken("true")],
     [kind |-> "JsNullLiteralExpression", token |-> WordToken("null")],
     [kind |-> "JsIdentifierExpression", token |-> WordToken("undefined")],
     [kind |-> "JsIdentifierExpression", token |-> WordToken("cond")],
     [kind |-> "JsStringLiteralExpression", token |-> StringToken(<<>>)],
     [kind |-> "JsStringLiteralExpression", token |-> StringToken(<<"text">>)],
     [kind |-> "JsCallExpression", token |-> WordToken("f")]}

JsxString(body) == [kind |-> "JsxString", value_token |-> Some(StringToken(body))]

JsxExpressionAttributeValue(word, kind) ==
    [kind |-> "JsxExpressionAttributeValue",
     expression |-> Some([kind |-> kind, token |-> WordToken(word)])]

\* JsxAttribute::initializer: none (the shorthand), or a clause with a
\* string, an expression or an element as its value.
Initializers ==
    {None}
      \cup {Some([value |-> Some(v)]) :
              v \in {JsxString(<<"false">>), JsxString(<<>>),
                     JsxExpressionAttributeValue("false", "JsBooleanLiteralExpression"),
                     JsxExpressionAttributeValue("cond", "JsIdentifierExpression"),
                     [kind |-> "AnyJsxTag"]}}

JsxAttribute(name, initializer) ==
    [kind |-> "JsxAttribute", name |-> Some(name), initializer |-> initializer]

JsxName(word) == [kind |-> "JsxName", value_token |-> Some(NameToken(word))]

JsxNamespaceName(namespace, word) ==
    [kind |-> "JsxNamespaceName", namespace |-> NameToken(namespace),
     value_token |-> Some(WordToken(word))]

JsxSpreadAttribute == [kind |-> "JsxSpreadAttribute"]

\* AnyJsxAttribute: a spread, aria-hidden with every initializer, another
\* attribute, and a namespaced attribute whose local name is aria-hidden.
Attributes ==
    {JsxSpreadAttribute,
     JsxAttribute(JsxName("role"), Some([value |-> Some(JsxString(<<"button">>))])),
     JsxAttribute(JsxNamespaceName("xml", "aria-hidden"), None)}
      \cup {JsxAttribute(JsxName("aria-hidden"), i) : i \in Initializers}

AttributeLists == SeqsUpTo(Attributes, MaxAttrs)

\* AnyJsxElementName, or no name at all (`name()` is Err).
ElementNames ==
    {None,
     Some([kind |-> "JsxName", text |-> "span"]),
     Some([kind |-> "JsxReferenceIdentifier", text |-> "Icon"]),
     Some([kind |-> "JsxMemberName", text |-> "Foo.Bar"]),
     Some([kind |-> "JsxNamespaceName", text |-> "svg:Foo"])}

JsxOpeningElement(name, attributes) ==
    [kind |-> "JsxOpeningElement", name |-> name, attributes |-> attributes]

\* A JsxElement: its opening element and its children.
JsxElementWith(name, attributes, children) ==
    [kind |-> "JsxElement",
     opening_element |-> Some(JsxOpeningElement(name, attributes)),
     children |-> children]

JsxElement(name, attributes) == JsxElementWith(name, attributes, <<>>)

JsxSelfClosingElement(name, attributes) ==
    [kind |-> "JsxSelfClosingElement", name |-> name, attributes |-> attributes]

JsxText(body) ==
    [kind |-> "JsxText", value_token |-> Some(Token(<<>>, body, <<>>))]

JsxExpressionChild(expression) ==
    [kind |-> "JsxExpressionChild", expression |-> expression]

JsxFragment(children) == [kind |-> "JsxFragment", children |-> children]

ElementChildren ==
    {JsxElement(n, l) : n \in ElementNames, l \in AttributeLists}
      \cup {JsxSelfClosingElement(n, l) : n \in ElementNames, l \in AttributeLists}

LeafChildren ==
    {JsxText(<<"hello">>), JsxText(<<WS, WS>>), JsxText(<<WS, "hello", WS>>),
     JsxExpressionChild(None), [kind |-> "JsxSpreadChild"]}
      \cup {JsxExpressionChild(Some(e)) : e \in Expressions}

\* What a fragment is filled with: an accessible child, an inaccessible
\* one, and one whose answer is none (the empty expression `{}`).
FragmentLeaves ==
    {JsxText(<<"hello">>),
     JsxSelfClosingElement(Some([kind |-> "JsxName", text |-> "span"]),
                           <<JsxAttribute(JsxName("aria-hidden"), None)>>),
     JsxExpressionChild(None)}

InnerFragments ==
    {JsxFragment(c) : c \in SeqsUpTo(FragmentLeaves, MaxChildren)}

\* Fragments that hold a fragment, before or after their other children.
OuterFragments ==
    {JsxFragment(c \o <<f>>) :
        c \in SeqsUpTo(FragmentLeaves, MaxChildren - 1), f \in InnerFragments}
      \cup {JsxFragment(<<f>> \o c) :
        c \in SeqsUpTo(FragmentLeaves, MaxChildren - 1), f \in InnerFragments}

\* Children that lack a required part: a text without its value token and
\* an element without its opening element.
MalformedChildren ==
    {[kind |-> "JsxText", value_token |-> None],
     [kind |-> "JsxElement", opening_element |-> None, children |-> <<>>]}

\* What an element is filled with: the fragment leaves, a blank text, a text
\* without its value token, and a fragment that holds only `{}`.
ElementLeaves ==
    FragmentLeaves
      \cup {JsxText(<<WS, WS>>), [kind |-> "JsxText", value_token |-> None],
            JsxFragment(<<JsxExpressionChild(None)>>)}

\* Elements with children: <span>...</span>.
ParentElements ==
    {JsxElementWith(Some([kind |-> "JsxName", text |-> "span"]), <<>>, c) :
        c \in SeqsUpTo(ElementLeaves, MaxChildren)}

Children ==
    ElementChildren \cup LeafChildren \cup InnerFragments \cup OuterFragments
      \cup MalformedChildren \cup ParentElements

\* Opening elements that do not stand under a JsxElement.
DetachedOpeningElements ==
    {JsxOpeningElement(n, <<>>) : n \in ElementNames}

\* Seventeen distinct names: one more than find_by_names supports.
TooManyNames ==
    [i \in 1..(MAX_NAMES + 1) |->
        IF i = 1 THEN ARIA_HIDDEN ELSE IF i = 2 THEN ROLE ELSE <<"data", ToString(i)>>]

\* The arrays find_by_names is called with: distinct names, a duplicate,
\* and too many names.
NameArrays ==
    {<<>>, <<ARIA_HIDDEN>>, <<ROLE>>, <<ARIA_HIDDEN, ROLE>>, <<ROLE, ARIA_HIDDEN>>,
     <<ARIA_HIDDEN, ARIA_HIDDEN>>, TooManyNames}

\* ------------------------------------------------------------- the queries

IsElementChild ==
    \/ child.kind = "JsxSelfClosingElement"
    \/ child.kind = "JsxElement" /\ is_some(child.opening_element)

\* The AnyJsxElement of an element child.
TheElement ==
    IF child.kind = "JsxElement" THEN unwrap(child.opening_element) ELSE child

\* No rule is being run while the queries are exercised.
NoRule ==
    /\ tree = <<>>
    /\ visited = <<>>
    /\ phase = <<>>
    /\ signals = <<>>
    /\ diagnostics = <<>>
    /\ run_calls = <<>>
    /\ diagnostic_calls = <<>>

Init ==
    /\ child \in Children \cup DetachedOpeningElements
    /\ pc = "idle"
    /\ op = "none"
    /\ args = <<>>
    /\ result = <<>>
    /\ NoRule

Call(name, arguments, value) ==
    /\ pc = "idle"
    /\ pc' = "done"
    /\ op' = name
    /\ args' = arguments
    /\ result' = value
    /\ UNCHANGED <<child, rule_vars>>

FindByName ==
    /\ IsElementChild
    /\ \E name \in LookupNames :
          Call("find_by_name", [name_to_lookup |-> name],
               find_by_name(TheElement.attributes, name))

FindByNames ==
    /\ IsElementChild
    /\ \E names \in NameArrays, debug_assertions \in BOOLEAN :
          Call("find_by_names",
               [names_to_lookup |-> names, debug_assertions |-> debug_assertions],
               find_by_names(TheElement.attributes, names, debug_assertions))

\* current_attribute is a JsxAttribute of the element: a position that
\* holds a named attribute.
HasTrailingSpreadProp ==
    /\ IsElementChild
    /\ \E i \in 1..Len(TheElement.attributes) :
          /\ TheElement.attributes[i].kind = "JsxAttribute"
          /\ Call("has_trailing_spread_prop", [current_attribute |-> i],
                  has_trailing_spread_prop(TheElement.attributes, i))

IsCustomComponent ==
    /\ IsElementChild
    /\ Call("is_custom_component", <<>>, is_custom_component(TheElement))

IsElement ==
    /\ IsElementChild
    /\ Call("is_element", <<>>, is_element(TheElement))

GetAttributeInnerStringText ==
    /\ IsElementChild
    /\ \E name \in PlainLookupNames :
          Call("get_attribute_inner_string_text", [name_to_lookup |-> name],
               get_attribute_inner_string_text(TheElement, name))

HasTruthyAttribute ==
    /\ IsElementChild
    /\ \E name \in PlainLookupNames :
          Call("has_truthy_attribute", [name_to_lookup |-> name],
               has_truthy_attribute(TheElement, name))

IsAccessibleNode ==
    /\ child \in Children
    /\ Call("is_accessible_node", <<>>, is_accessible_node(child))

\* self is the opening element of the tree's element, or a detached one.
HasAccessibleChild ==
    /\ \/ child.kind = "JsxOpeningElement"
       \/ child.kind = "JsxElement" /\ is_some(child.opening_element)
    /\ Call("has_accessible_child", <<>>,
            has_accessible_child(parent_JsxElement(child)))

\* The caller takes the answer; the tree is as it was.
Return ==
    /\ pc = "done"
    /\ pc' = "idle"
    /\ op' = "none"
    /\ args' = <<>>
    /\ result' = <<>>
    /\ UNCHANGED <<child, rule_vars>>

Next ==
    \/ FindByName
    \/ FindByNames
    \/ HasTrailingSpreadProp
    \/ IsCustomComponent
    \/ IsElement
    \/ GetAttributeInnerStringText
    \/ HasTruthyAttribute
    \/ IsAccessibleNode
    \/ HasAccessibleChild
    \/ Return

Spec == Init /\ [][Next]_vars

\* ------------------------------------------------- the rule UseObjectSpread

\* type Query = Ast<JsIdentifierBinding>
Query(node) == node.kind = "JsIdentifierBinding"

\* The context a rule step is given: the node that matched the Query.
RuleContext(node) == [query |-> node]

\* UseObjectSpread::run; the unit State is the empty tuple.
run(ctx) == Some(<<>>)

\* Mutant: the diagnostic step declines.
diagnostic_declines(ctx, state) == None

\* UseObjectSpread::diagnostic
diagnostic(ctx, state) ==
    LET node == ctx.query
    IN  Some([category |-> "lint/nursery/useObjectSpread",
              range |-> node.range,
              message |-> <<"Variable is read here.">>,
              notes |-> <<"This note will give you more information.">>])

\* The kinds of node a tree is made of; one of them matches the Query.
NodeKinds == {"JsIdentifierBinding", "JsReferenceIdentifier", "JsxOpeningElement"}

Nodes == 1..MaxNodes

\* Trees as the driver walks them: the nodes with their kinds, each with
\* the range of text it covers.
Trees ==
    {[n \in Nodes |-> [kind |-> k[n], range |-> <<n - 1, n>>]] :
        k \in [Nodes -> NodeKinds]}

InitRule ==
    /\ child = JsxExpressionChild(None)
    /\ pc = "idle"
    /\ op = "none"
    /\ args = <<>>
    /\ result = <<>>
    /\ tree \in Trees
    /\ visited = [n \in Nodes |-> FALSE]
    /\ phase = [n \in Nodes |-> "Unmatched"]
    /\ signals = [n \in Nodes |-> None]
    /\ diagnostics = [n \in Nodes |-> None]
    /\ run_calls = [n \in Nodes |-> 0]
    /\ diagnostic_calls = [n \in Nodes |-> 0]

\* The driver comes to a node that matches the Query and invokes run.
Match(n) ==
    /\ ~visited[n]
    /\ Query(tree[n])
    /\ LET signal == run(RuleContext(tree[n]))
       IN  /\ signals' = [signals EXCEPT ![n] = signal]
           /\ phase' = [phase EXCEPT
                           ![n] = IF is_some(signal) THEN "Signaled" ELSE "Matched"]
    /\ visited' = [visited EXCEPT ![n] = TRUE]
    /\ run_calls' = [run_calls EXCEPT ![n] = @ + 1]
    /\ UNCHANGED <<tree, diagnostics, diagnostic_calls, query_vars>>

\* The driver comes to a node the Query declines and passes it by.
Pass(n) ==
    /\ ~visited[n]
    /\ ~Query(tree[n])
    /\ visited' = [visited EXCEPT ![n] = TRUE]
    /\ UNCHANGED <<tree, phase, signals, diagnostics, run_calls,
                   diagnostic_calls, query_vars>>

\* On a signal the driver invokes the diagnostic step with it.
Diagnose(n) ==
    /\ phase[n] = "Signaled"
    /\ LET d == diagnostic(RuleContext(tree[n]), unwrap(signals[n]))
       IN  /\ diagnostics' = [diagnostics EXCEPT ![n] = d]
           /\ phase' = [phase EXCEPT
                           ![n] = IF is_some(d) THEN "Reported" ELSE "Suppressed"]
    /\ diagnostic_calls' = [diagnostic_calls EXCEPT ![n] = @ + 1]
    /\ UNCHANGED <<tree, visited, signals, run_calls, query_vars>>

NextRule ==
    \/ \E n \in Nodes : Match(n)
    \/ \E n \in Nodes : Pass(n)
    \/ \E n \in Nodes : Diagnose(n)

SpecRule == InitRule /\ [][NextRule]_vars

\* ------------------------------------------------- what the claims speak of

Done(name) == pc = "done" /\ op = name

Attrs == TheElement.attributes

IsSpread(i) == Attrs[i].kind = "JsxSpreadAttribute"

\* The first position of a set of positions, if any.
FirstOf(positions) ==
    IF positions = {} THEN None
    ELSE Some(CHOOSE i \in positions : \A j \in positions : i <= j)

PairwiseDistinct(names) ==
    \A i, j \in 1..Len(names) : i /= j => names[i] /= names[j]

\* The trimmed text of an attribute's name: the name token of a JsxName,
\* and namespace, colon and name of a JsxNamespaceName.
NameText(attribute) ==
    LET name == unwrap(attribute.name)
    IN  IF name.kind = "JsxName"
        THEN text_trimmed(unwrap(name.value_token))
        ELSE text_trimmed(name.namespace) \o <<":">>
               \o text_trimmed(unwrap(name.value_token))

\* A named attribute whose trimmed name text is `name`.
Named(attribute, name) ==
    /\ attribute.kind = "JsxAttribute"
    /\ is_some(attribute.name)
    /\ is_some(unwrap(attribute.name).value_token)
    /\ NameText(attribute) = name

\* The same, for a name that is not namespaced.
NamedPlain(attribute, name) ==
    /\ Named(attribute, name)
    /\ unwrap(attribute.name).kind = "JsxName"

AriaHiddenShorthand == JsxAttribute(JsxName("aria-hidden"), None)

AriaHiddenIs(value) ==
    JsxAttribute(JsxName("aria-hidden"), Some([value |-> Some(value)]))

AriaHiddenCond ==
    AriaHiddenIs(JsxExpressionAttributeValue("cond", "JsIdentifierExpression"))

\* C1: has_truthy_attribute(element, name) is true iff find_attribute_by_name
\* finds an attribute a, a's static value is not known or is neither falsy
\* nor the text "false", and no spread attribute stands after a. It is false
\* for aria-hidden="false", true for the shorthand aria-hidden, and false
\* for a value that is not static followed by a spread.
C1_HasTruthyAttribute ==
    Done("has_truthy_attribute") =>
        LET found == find_attribute_by_name(TheElement, args.name_to_lookup)
            value == JsxAttribute_as_static_value(Attrs[unwrap(found)])
        IN  /\ result =
                 (/\ is_some(found)
                  /\ \/ is_none(value)
                     \/ /\ ~is_falsy(unwrap(value))
                        /\ StaticValue_text(unwrap(value)) /= <<"false">>
                  /\ ~\E j \in (unwrap(found) + 1)..Len(Attrs) : IsSpread(j))
            /\ args.name_to_lookup = ARIA_HIDDEN =>
                 /\ Attrs = <<AriaHiddenIs(JsxString(<<"false">>))>> => result = FALSE
                 /\ Attrs = <<AriaHiddenShorthand>> => result = TRUE
                 /\ Attrs = <<AriaHiddenCond, JsxSpreadAttribute>> => result = FALSE

C1_Witness ==
    /\ Done("has_truthy_attribute")
    /\ args.name_to_lookup = ARIA_HIDDEN
    /\ Attrs = <<JsxSpreadAttribute, AriaHiddenCond, JsxSpreadAttribute>>
    /\ result = FALSE

\* C2: for a named attribute a of the list, has_trailing_spread_prop is true
\* iff a spread attribute stands at a position strictly after a's; it is
\* false when a is the last entry, whatever stands before it.
C2_HasTrailingSpreadProp ==
    Done("has_trailing_spread_prop") =>
        /\ result = \E j \in (args.current_attribute + 1)..Len(Attrs) : IsSpread(j)
        /\ args.current_attribute = Len(Attrs) => result = FALSE

C2_Witness ==
    /\ Done("has_trailing_spread_prop")
    /\ IsSpread(1)
    /\ args.current_attribute = Len(Attrs)
    /\ result = FALSE

\* C3 as stated: find_by_name returns the first entry that is a named
\* attribute whose trimmed name text is the name asked for.
C3_FirstNamedAttribute ==
    Done("find_by_name") =>
        result = FirstOf({i \in 1..Len(Attrs) : Named(Attrs[i], args.name_to_lookup)})

\* C3, amended: find_by_name returns the first entry that is a named
\* attribute with a name that is not namespaced and whose trimmed name text
\* is the name asked for; none on an empty list or without such an entry;
\* never a spread attribute.
C3_FirstPlainNamedAttribute ==
    Done("find_by_name") =>
        /\ result = FirstOf({i \in 1..Len(Attrs) :
                               NamedPlain(Attrs[i], args.name_to_lookup)})
        /\ Attrs = <<>> => result = None
        /\ is_some(result) => ~IsSpread(unwrap(result))

C3_Witness ==
    /\ Done("find_by_name")
    /\ Len(Attrs) = 3
    /\ IsSpread(1)
    /\ NamedPlain(Attrs[2], args.name_to_lookup)
    /\ NamedPlain(Attrs[3], args.name_to_lookup)
    /\ Attrs[2] /= Attrs[3]
    /\ result = Some(2)

ContractViolated(names) ==
    ~PairwiseDistinct(names) \/ Len(names) > MAX_NAMES

\* C4 as stated: a call of find_by_names with a repeated name or more than
\* 16 names is rejected before any attribute is examined, and returns no
\* array.
C4_RejectedInEveryBuild ==
    Done("find_by_names") /\ ContractViolated(args.names_to_lookup) =>
        /\ result.outcome = "panic"
        /\ result.examined = 0
        /\ result.results = <<>>

\* C4, amended: in a build with debug assertions such a call is rejected
\* before any attribute is examined and returns no array, an outcome no
\* call that keeps the contract has; in a build without them the call is
\* not rejected and returns an array of N slots.
C4_RejectedInDebugBuild ==
    Done("find_by_names") =>
        IF ContractViolated(args.names_to_lookup)
        THEN IF args.debug_assertions
             THEN /\ result.outcome = "panic"
                  /\ result.examined = 0
                  /\ result.results = <<>>
             ELSE /\ result.outcome = "returned"
                  /\ Len(result.results) = Len(args.names_to_lookup)
        ELSE result.outcome = "returned"

C4_Witness ==
    /\ Done("find_by_names")
    /\ args.debug_assertions
    /\ args.names_to_lookup = <<ARIA_HIDDEN, ARIA_HIDDEN>>
    /\ Len(Attrs) = 3
    /\ result.outcome = "panic"

\* C5: for N pairwise distinct names, N <= 16, find_by_names returns N slots
\* and slot i is find_by_name(list, names[i]), also when the scan stops
\* early and when a name repeats in the list.
C5_FindByNamesIsFindByName ==
    Done("find_by_names")
      /\ PairwiseDistinct(args.names_to_lookup)
      /\ Len(args.names_to_lookup) <= MAX_NAMES =>
        /\ result.outcome = "returned"
        /\ Len(result.results) = Len(args.names_to_lookup)
        /\ \A i \in 1..Len(args.names_to_lookup) :
              result.results[i] = find_by_name(Attrs, args.names_to_lookup[i])

C5_Witness ==
    /\ Done("find_by_names")
    /\ args.names_to_lookup = <<ROLE, ARIA_HIDDEN>>
    /\ Len(Attrs) = 3
    /\ NamedPlain(Attrs[1], ARIA_HIDDEN)
    /\ NamedPlain(Attrs[2], ROLE)
    /\ NamedPlain(Attrs[3], ARIA_HIDDEN)
    /\ result.results = <<Some(2), Some(1)>>
    /\ result.examined = 2

PlainTagName(element) ==
    is_some(element.name) /\ unwrap(element.name).kind = "JsxName"

Span == Some([kind |-> "JsxName", text |-> "span"])

Icon == Some([kind |-> "JsxReferenceIdentifier", text |-> "Icon"])

\* C6 as stated: for an element child, is_accessible_node is true iff the
\* element is a custom component or has no truthy aria-hidden, and the only
\* element child classified inaccessible is one with a plain tag name and a
\* truthy aria-hidden.
C6_OnlyNativeInaccessible ==
    Done("is_accessible_node") /\ IsElementChild =>
        /\ result = Some(\/ is_custom_component(TheElement)
                         \/ ~has_truthy_attribute(TheElement, ARIA_HIDDEN))
        /\ result = Some(FALSE) =>
              /\ PlainTagName(TheElement)
              /\ has_truthy_attribute(TheElement, ARIA_HIDDEN)

\* C6, amended: for an element child, is_accessible_node is true iff the
\* element is a custom component or has no truthy aria-hidden; the only
\* element child classified inaccessible is one with a plain tag name, or
\* with no name at all, and a truthy aria-hidden. So <span aria-hidden> is
\* inaccessible, <Icon aria-hidden> is accessible, and so is a native
\* element whose aria-hidden is followed by a spread.
C6_OnlyNonComponentInaccessible ==
    Done("is_accessible_node") /\ IsElementChild =>
        /\ result = Some(\/ is_custom_component(TheElement)
                         \/ ~has_truthy_attribute(TheElement, ARIA_HIDDEN))
        /\ result = Some(FALSE) =>
              /\ PlainTagName(TheElement) \/ is_none(TheElement.name)
              /\ has_truthy_attribute(TheElement, ARIA_HIDDEN)
        /\ Attrs = <<AriaHiddenShorthand>> =>
              /\ TheElement.name = Span => result = Some(FALSE)
              /\ TheElement.name = Icon => result = Some(TRUE)
        /\ TheElement.name = Span /\ Attrs = <<AriaHiddenShorthand, JsxSpreadAttribute>> =>
              result = Some(TRUE)

C6_Witness ==
    /\ Done("is_accessible_node")
    /\ child.kind = "JsxElement"
    /\ IsElementChild
    /\ TheElement.name = Span
    /\ Attrs = <<JsxSpreadAttribute, AriaHiddenShorthand>>
    /\ result = Some(FALSE)

RECURSIVE LeavesOf(_)
\* The children of a fragment that are not fragments, through every
\* fragment nested in it.
LeavesOf(fragment) ==
    UNION {IF fragment.children[i].kind = "JsxFragment"
           THEN LeavesOf(fragment.children[i])
           ELSE {fragment.children[i]} : i \in 1..Len(fragment.children)}

\* C7 as stated: for a fragment child, is_accessible_node is true iff at
\* least one child of the fragment is accessible, through nested fragments.
C7_FragmentSomeChildAccessible ==
    Done("is_accessible_node") /\ child.kind = "JsxFragment" =>
        /\ result = Some(\E i \in 1..Len(child.children) :
                            is_accessible_node(child.children[i]) = Some(TRUE))
        /\ result = Some(\E leaf \in LeavesOf(child) :
                            is_accessible_node(leaf) = Some(TRUE))

\* C7, amended: for a fragment child, is_accessible_node is true iff for at
\* least one child of the fragment it is true or none (a child whose answer
\* is none counts as accessible), through nested fragments; a fragment with
\* no children, or whose children are all false, is false.
C7_FragmentSomeChildNotInaccessible ==
    Done("is_accessible_node") /\ child.kind = "JsxFragment" =>
        /\ result = Some(\E i \in 1..Len(child.children) :
                            is_accessible_node(child.children[i]) /= Some(FALSE))
        /\ result = Some(\E leaf \in LeavesOf(child) :
                            is_accessible_node(leaf) /= Some(FALSE))
        /\ child.children = <<>> => result = Some(FALSE)

C7_Witness ==
    /\ Done("is_accessible_node")
    /\ child.kind = "JsxFragment"
    /\ Len(child.children) = 2
    /\ is_accessible_node(child.children[1]) = Some(FALSE)
    /\ child.children[2].kind = "JsxFragment"
    /\ Len(child.children[2].children) = 2
    /\ is_accessible_node(child.children[2].children[1]) = Some(FALSE)
    /\ is_accessible_node(child.children[2].children[2]) = Some(TRUE)
    /\ result = Some(TRUE)

\* The statically falsy values: false, the empty string, null, undefined.
StaticallyFalsy(expression) ==
    \/ /\ expression.kind = "JsBooleanLiteralExpression"
       /\ text_trimmed(expression.token) = <<"false">>
    \/ /\ expression.kind = "JsStringLiteralExpression"
       /\ text_trimmed(expression.token) = <<QUOTE, QUOTE>>
    \/ expression.kind = "JsNullLiteralExpression"
    \/ /\ expression.kind = "JsIdentifierExpression"
       /\ text_trimmed(expression.token) = <<"undefined">>

\* C8: for an expression child, is_accessible_node is false only when the
\* expression is statically falsy (false, "", null, undefined); it is true
\* for every expression that is not static and for every other constant.
C8_ExpressionChild ==
    Done("is_accessible_node")
      /\ child.kind = "JsxExpressionChild" /\ is_some(child.expression) =>
        /\ result = Some(~StaticallyFalsy(unwrap(child.expression)))
        /\ is_none(AnyJsExpression_as_static_value(unwrap(child.expression))) =>
              result = Some(TRUE)

C8_Witness ==
    /\ Done("is_accessible_node")
    /\ child.kind = "JsxExpressionChild"
    /\ is_some(child.expression)
    /\ unwrap(child.expression).kind = "JsCallExpression"
    /\ result = Some(TRUE)

ComponentNameKinds ==
    {"JsxMemberName", "JsxNamespaceName", "JsxReferenceIdentifier"}

\* C9 as stated: is_custom_component is true iff the name of the element is
\* not a plain name, and is_element is its complement: for every element
\* exactly one of the two is true.
C9_Complement ==
    /\ Done("is_custom_component") =>
          /\ result = ~PlainTagName(TheElement)
          /\ result /= is_element(TheElement)
    /\ Done("is_element") =>
          result /= is_custom_component(TheElement)

\* C9, amended: for an element that has a name, is_custom_component is true
\* iff the name is a member name, a namespaced name or a reference
\* identifier, and is_element is its complement; for an element whose name
\* is missing both are false.
C9_ComplementWhenNamed ==
    /\ Done("is_custom_component") =>
          IF is_some(TheElement.name)
          THEN /\ result = (unwrap(TheElement.name).kind \in ComponentNameKinds)
               /\ result = ~PlainTagName(TheElement)
               /\ result /= is_element(TheElement)
          ELSE result = FALSE /\ is_element(TheElement) = FALSE
    /\ Done("is_element") =>
          IF is_some(TheElement.name)
          THEN /\ result = PlainTagName(TheElement)
               /\ result /= is_custom_component(TheElement)
          ELSE result = FALSE /\ is_custom_component(TheElement) = FALSE

C9_Witness ==
    /\ Done("is_custom_component")
    /\ is_some(TheElement.name)
    /\ unwrap(TheElement.name).kind = "JsxMemberName"
    /\ Len(Attrs) = 3
    /\ result = TRUE

\* The value of the first attribute of that name, when it is a string
\* literal.
StringLiteralOf(name) ==
    LET found == find_attribute_by_name(TheElement, name)
        attr == Attrs[unwrap(found)]
    IN  IF /\ is_some(found)
           /\ is_some(attr.initializer)
           /\ is_some(unwrap(attr.initializer).value)
           /\ unwrap(unwrap(attr.initializer).value).kind = "JsxString"
        THEN Some(unwrap(unwrap(attr.initializer).value))
        ELSE None

\* C10: get_attribute_inner_string_text returns the text of the value
\* without its quotes iff the first attribute of that name has a string
\* literal value; it returns none when the attribute is absent, is the
\* shorthand, or has an expression or an element as its value.
C10_InnerStringText ==
    Done("get_attribute_inner_string_text") =>
        LET string == StringLiteralOf(args.name_to_lookup)
        IN  IF is_some(string)
            THEN /\ is_some(result)
                 /\ <<QUOTE>> \o unwrap(result) \o <<QUOTE>>
                      = text_trimmed(unwrap(unwrap(string).value_token))
            ELSE result = None

C10_Witness ==
    /\ Done("get_attribute_inner_string_text")
    /\ args.name_to_lookup = ARIA_HIDDEN
    /\ Len(Attrs) = 3
    /\ IsSpread(1)
    /\ Attrs[2] = AriaHiddenIs(JsxString(<<"false">>))
    /\ Attrs[3] = AriaHiddenShorthand
    /\ result = Some(<<"false">>)

RECURSIVE Malformed(_)
\* A child that lacks a required part, itself or in a child of a fragment:
\* a text without its value token, an element without its opening element.
Malformed(node) ==
    CASE node.kind = "JsxText" -> is_none(node.value_token)
      [] node.kind = "JsxElement" -> is_none(node.opening_element)
      [] node.kind = "JsxFragment" ->
            \E i \in 1..Len(node.children) : Malformed(node.children[i])
      [] OTHER -> FALSE

\* C11 as stated: is_accessible_node returns none only for a malformed
\* child, and a definite boolean for every well-formed child of any kind.
C11_NoneOnlyWhenMalformed ==
    Done("is_accessible_node") =>
        /\ result \in {None, Some(TRUE), Some(FALSE)}
        /\ result = None => Malformed(child)
        /\ ~Malformed(child) => result \in {Some(TRUE), Some(FALSE)}

\* C11, amended: is_accessible_node returns none exactly when the child is
\* a text without its value token, an element without its opening element,
\* or an expression child that holds no expression (the well-formed `{}`);
\* for every other child it returns a definite boolean, and it always
\* returns: a malformed child gives none, and a fragment that holds one
\* still gives a boolean.
C11_NoneWhenPartMissing ==
    Done("is_accessible_node") =>
        /\ result \in {None, Some(TRUE), Some(FALSE)}
        /\ result = None <=>
              \/ child.kind = "JsxText" /\ is_none(child.value_token)
              \/ child.kind = "JsxElement" /\ is_none(child.opening_element)
              \/ child.kind = "JsxExpressionChild" /\ is_none(child.expression)

C11_Witness ==
    /\ Done("is_accessible_node")
    /\ child.kind = "JsxText"
    /\ is_none(child.value_token)
    /\ result = None

\* The children of the element the opening element stands under.
ChildrenOfParent == child.children

\* C13: has_accessible_child is true iff the opening element's parent is an
\* element and at least one child of that element has is_accessible_node
\* true or none; it is false when the element has no children, when every
\* child is definitely inaccessible, and when there is no element parent.
C13_HasAccessibleChild ==
    Done("has_accessible_child") =>
        /\ result =
              /\ child.kind = "JsxElement"
              /\ \E i \in 1..Len(ChildrenOfParent) :
                    is_accessible_node(ChildrenOfParent[i]) \in {Some(TRUE), None}
        /\ child.kind /= "JsxElement" => result = FALSE
        /\ child.kind = "JsxElement" /\ ChildrenOfParent = <<>> => result = FALSE
        /\ (/\ child.kind = "JsxElement"
            /\ \A i \in 1..Len(ChildrenOfParent) :
                  is_accessible_node(ChildrenOfParent[i]) = Some(FALSE))
              => result = FALSE

\* An element with two children, the first definitely inaccessible and the
\* second indeterminate: only the indeterminate child makes it count as
\* having an accessible child.
C13_Witness ==
    /\ Done("has_accessible_child")
    /\ child.kind = "JsxElement"
    /\ Len(ChildrenOfParent) = 2
    /\ is_accessible_node(ChildrenOfParent[1]) = Some(FALSE)
    /\ is_accessible_node(ChildrenOfParent[2]) = None
    /\ result = TRUE

\* What the rule gives for a node taken alone, once the driver is done
\* with it: a diagnostic at the node's own range for a node that matches
\* the Query, nothing for any other node.
OutcomeAlone(node) ==
    IF Query(node)
    THEN [phase |-> "Reported",
          diagnostic |-> Some([category |-> "lint/nursery/useObjectSpread",
                               range |-> node.range,
                               message |-> <<"Variable is read here.">>,
                               notes |-> <<"This note will give you more information.">>])]
    ELSE [phase |-> "Unmatched", diagnostic |-> None]

Finished(n) ==
    IF Query(tree[n]) THEN phase[n] \in {"Reported", "Suppressed"} ELSE visited[n]

\* Where a node stands in Unmatched -> Signaled -> {Reported, Suppressed}.
C12_Lifecycle ==
    \A n \in Nodes :
        /\ run_calls[n] \in {0, 1}
        /\ run_calls[n] = 1 <=> Query(tree[n]) /\ visited[n]
        /\ signals[n] \in {None, Some(<<>>)}
        /\ is_some(signals[n]) => run_calls[n] = 1
        /\ diagnostic_calls[n] \in {0, 1}
        /\ diagnostic_calls[n] = 1 => is_some(signals[n])
        /\ phase[n] = "Unmatched" <=> run_calls[n] = 0
        /\ phase[n] \in {"Reported", "Suppressed"} <=> diagnostic_calls[n] = 1
        /\ phase[n] = "Reported" <=> is_some(diagnostics[n])
        /\ Finished(n) =>
              /\ phase[n] = OutcomeAlone(tree[n]).phase
              /\ diagnostics[n] = OutcomeAlone(tree[n]).diagnostic

\* A step moves one node one stage on, and only a Signaled node moves to
\* Reported or Suppressed.
C12_Step ==
    \A n \in Nodes :
        phase'[n] /= phase[n] =>
            \/ phase[n] = "Unmatched" /\ phase'[n] \in {"Matched", "Signaled"}
            \/ phase[n] = "Signaled" /\ phase'[n] \in {"Reported", "Suppressed"}

\* C12: every node follows Unmatched -> Matched/Signaled -> {Reported,
\* Suppressed}: run is invoked once per node that matches the Query and
\* gives zero or one signal, the diagnostic step is invoked only for a node
\* whose run gave a signal, a node is Reported or Suppressed only after it
\* was Signaled, and a node's outcome is what the rule gives for that node
\* alone, whichever nodes were processed before it and in whatever order.
C12_RuleProtocol == [](C12_Lifecycle) /\ [][C12_Step]_vars

\* Out of tree order: the last node is Reported while the first, which
\* matches the Query too, has not been visited.
C12_Witness ==
    /\ tree /= <<>>
    /\ Query(tree[1])
    /\ phase[1] = "Unmatched"
    /\ Query(tree[MaxNodes])
    /\ phase[MaxNodes] = "Reported"
    /\ diagnostics[MaxNodes] = OutcomeAlone(tree[MaxNodes]).diagnostic
    /\ run_calls[MaxNodes] = 1
====
